---- MODULE Spec2Model ----
(***************************************************************************)
(* The "Readable" language-learning reader (src/scripts.js): the single    *)
(* clip player (currentlyPlaying), the lesson sequencer (lessonPlayback,   *)
(* playLessonInOrder), the existence cache (audioExists) and the render    *)
(* pass that wires the play controls.                                      *)
(*                                                                         *)
(* JavaScript runs one task at a time; the promise continuations a task    *)
(* makes ready run before the next task.  Each action below is therefore   *)
(* one task (a DOM event, a media element event, a fetch response, a       *)
(* timer) together with the continuations it makes ready.                  *)
(***************************************************************************)
EXTENDS Integers, Sequences, FiniteSets, TLC

(* ------------------------------ bounds -------------------------------- *)

\* The number of user inputs (clicks and selections) in one behaviour.  Every
\* growth of lessonPlayback.token and of renderToken is caused by one input.
MaxInputs == 3

(* ------------------------------ dataset ------------------------------- *)

\* model.languages / model.lessonIds / model.lessons as buildModel leaves
\* them for a small Readable.csv: two language columns, of which the second
\* is not translated yet; lesson "1" has two sentences, lesson "2" has one
\* sentence and one line without text.
\* Number(s) for the cells of the Lesson and Line columns: a number, or NaN.
NaN == [nan |-> TRUE, val |-> 0]
Number(s) ==
  CASE s = "" -> [nan |-> FALSE, val |-> 0]
    [] s = "1" -> [nan |-> FALSE, val |-> 1]
    [] s = "2" -> [nan |-> FALSE, val |-> 2]
    [] s = "10" -> [nan |-> FALSE, val |-> 10]
    [] OTHER -> NaN

Languages == <<"English", "Norsk">>
LessonIds == <<"1", "2">>
Lessons ==
  [id \in {"1", "2"} |->
     IF id = "1"
       THEN << [lineNo |-> Number("1"), texts |-> [English |-> "Hei.", Norsk |-> ""]],
               [lineNo |-> Number("2"), texts |-> [English |-> "Takk.", Norsk |-> ""]] >>
       ELSE << [lineNo |-> Number("1"), texts |-> [English |-> "Ja.", Norsk |-> ""]],
               [lineNo |-> Number("2"), texts |-> [English |-> "", Norsk |-> ""]] >>]

SeqToSet(s) == {s[k] : k \in 1..Len(s)}
IndexOf(s, x) == IF x \in SeqToSet(s)
                   THEN CHOOSE k \in 1..Len(s) : s[k] = x /\ \A j \in 1..(k-1) : s[j] # x
                   ELSE 0

AUDIO_DIR == "Audio"
AUDIO_EXT == "m4a"

\* The address of a sentence's clip: directory, language, sentence text and
\* extension.  The path segments are kept apart (encodeURIComponent is
\* injective on each segment, so equal addresses are equal tuples).
buildAudioUrl(language, sentenceText) == <<AUDIO_DIR, language, sentenceText, AUDIO_EXT>>

NoUrl == <<>>       \* a null entry of sentenceUrls
NoAudio == <<>>     \* currentlyPlaying.audio = null
NoBtn == <<>>       \* currentlyPlaying.btn = null / sentenceBtns[i] = null

URLS == {buildAudioUrl(Languages[l], Lessons[id][k].texts[Languages[l]]) :
           <<l, id, k>> \in {t \in (1..Len(Languages)) \X SeqToSet(LessonIds) \X (1..2) :
                               Lessons[t[2]][t[3]].texts[Languages[t[1]]] # ""}}

RunIds == 1..(MaxInputs + 1)
NoRun == [phase |-> "none"]

(* ------------------------------- state -------------------------------- *)

VARIABLES
  model,              \* model.currentLessonId / currentLanguage / helperLanguage
  storage,            \* localStorage (STORAGE_KEYS)
  renderToken,        \* render generation counter
  sentenceUrls,       \* the latest render's sentenceUrls
  sentenceBtns,       \* the latest render's sentence buttons: "none", "idle", "playing"
  gate,               \* the latest render's Promise.all over audioExists
  audioExistsCache,   \* Map url -> boolean
  probes,             \* HEAD requests in flight
  serverHas,          \* the clips the server holds
  currentlyPlaying,   \* { audio, btn }
  audio,              \* the cached Audio elements, by url
  aborted,            \* play() promises taken by pause(), rejection queued
  lessonPlayback,     \* { running, token, btn }
  lessonBtnText,      \* textContent of the button lessonPlayback.btn
  runs,               \* the playLessonInOrder calls that have not returned
  lessonImage,        \* els.lessonImageWrap / els.lessonImage and the Image
                      \* objects whose load is pending
  page,               \* what the page shows: "loading" (fetchText pending),
                      \* "lesson", "no lesson" (nothing rendered), a load error
  inputs              \* the number of user inputs handled so far

vars == <<model, storage, renderToken, sentenceUrls, sentenceBtns, gate,
          audioExistsCache, probes, serverHas, currentlyPlaying, audio, aborted,
          lessonPlayback, lessonBtnText, runs, lessonImage, page, inputs>>

\* The whole state as one record, so that the handlers compose as functions.
W == [model |-> model, storage |-> storage, renderToken |-> renderToken,
      sentenceUrls |-> sentenceUrls, sentenceBtns |-> sentenceBtns, gate |-> gate,
      audioExistsCache |-> audioExistsCache, probes |-> probes,
      serverHas |-> serverHas, currentlyPlaying |-> currentlyPlaying,
      audio |-> audio, aborted |-> aborted, lessonPlayback |-> lessonPlayback,
      lessonBtnText |-> lessonBtnText, runs |-> runs,
      lessonImage |-> lessonImage, page |-> page]

\* The task ends in state w (w is computed once and bound to v).
Commit(w) ==
  \E v \in {w} :
    /\ model' = v.model
    /\ storage' = v.storage
    /\ renderToken' = v.renderToken
    /\ sentenceUrls' = v.sentenceUrls
    /\ sentenceBtns' = v.sentenceBtns
    /\ gate' = v.gate
    /\ audioExistsCache' = v.audioExistsCache
    /\ probes' = v.probes
    /\ serverHas' = v.serverHas
    /\ currentlyPlaying' = v.currentlyPlaying
    /\ audio' = v.audio
    /\ aborted' = v.aborted
    /\ lessonPlayback' = v.lessonPlayback
    /\ lessonBtnText' = v.lessonBtnText
    /\ runs' = v.runs
    /\ lessonImage' = v.lessonImage
    /\ page' = v.page

\* A task started by the environment (media element, network, timer).
Env(w) == Commit(w) /\ UNCHANGED inputs

\* A task started by the user: a click or a selection.
User(w) == inputs < MaxInputs /\ inputs' = inputs + 1 /\ Commit(w)

(* ------------------- HTMLMediaElement (environment) ------------------- *)

\* audio[u].status: "paused" (paused = true), "starting" (play() called, its
\* promise pending), "playing", "failed" (load or decode error; paused is
\* still false until someone calls pause()).
Paused(w, u) == w.audio[u].status = "paused"

\* audio.pause(): sets paused and takes the pending play promises; their
\* rejection (AbortError) is delivered by a later task.
pause(w, u) ==
  IF Paused(w, u) THEN w
  ELSE [w EXCEPT !.audio[u].status = "paused",
                 !.audio[u].pending = {},
                 !.aborted = @ \cup w.audio[u].pending]

\* audio.play(): clears paused and returns a promise, awaited by `awaiter`.
play(w, u, awaiter) ==
  [w EXCEPT !.audio[u].status = IF @ = "playing" THEN "playing" ELSE "starting",
            !.audio[u].pending = @ \cup {awaiter}]

ManualAwaiter(u) == [kind |-> "manual", url |-> u, run |-> 0]
RunAwaiter(u, r) == [kind |-> "run", url |-> u, run |-> r]

(* --------------------------- Audio helpers ---------------------------- *)

\* btn.classList / textContent of a sentence button <<generation, line>>.
\* Buttons of a superseded render are detached from the document.
SetSentenceBtn(w, b, s) ==
  IF b # NoBtn /\ b[1] = w.renderToken
    THEN [w EXCEPT !.sentenceBtns[b[2]] = s]
    ELSE w

\* stopCurrentAudio without the reset of currentlyPlaying.btn.
stopCurrentAudio_KeepsBtn(w) ==
  LET w1 == IF w.currentlyPlaying.audio # NoAudio
              THEN pause(w, w.currentlyPlaying.audio)
              ELSE w
  IN [w1 EXCEPT !.currentlyPlaying = [audio |-> NoAudio, btn |-> NoBtn]]

stopCurrentAudio(w) ==
  LET w1 == IF w.currentlyPlaying.audio # NoAudio
              THEN pause(w, w.currentlyPlaying.audio)
              ELSE w
      w2 == IF w1.currentlyPlaying.btn # NoBtn
              THEN SetSentenceBtn(w1, w1.currentlyPlaying.btn, "idle")
              ELSE w1
  IN [w2 EXCEPT !.currentlyPlaying = [audio |-> NoAudio, btn |-> NoBtn]]

(* -------------------------- Lesson playback --------------------------- *)

\* stopLessonPlayback without its call of stopCurrentAudio.
stopLessonPlayback_NoStop(w) ==
  LET w1 == [w EXCEPT !.lessonPlayback.token = @ + 1,
                      !.lessonPlayback.running = FALSE]
  IN IF w1.lessonPlayback.btn # 0
       THEN [w1 EXCEPT !.lessonBtnText = "Play lesson"]
       ELSE w1

\* stopLessonPlayback without lessonPlayback.token++.
stopLessonPlayback_KeepToken(w) ==
  LET w1 == [w EXCEPT !.lessonPlayback.running = FALSE]
      w2 == stopCurrentAudio(w1)
  IN IF w2.lessonPlayback.btn # 0
       THEN [w2 EXCEPT !.lessonBtnText = "Play lesson"]
       ELSE w2

stopLessonPlayback(w) ==
  LET w1 == [w EXCEPT !.lessonPlayback.token = @ + 1,
                      !.lessonPlayback.running = FALSE]
      w2 == stopCurrentAudio(w1)
  IN IF w2.lessonPlayback.btn # 0
       THEN [w2 EXCEPT !.lessonBtnText = "Play lesson"]
       ELSE w2

\* A cleanup that calls done() and leaves the listeners bound.
cleanup_KeepsListeners(w, u, r) == w

\* The Promise of playOne has two listeners on the clip, onEnded and onError;
\* audio[u].listeners holds the runs whose pair is bound to clip u.
cleanup(w, u, r) == [w EXCEPT !.audio[u].listeners = @ \ {r}]

\* sentenceBtns[i] as run r sees it: the array of the render that made the
\* run's button (frozen once a later render has begun).
RunBtn(w, r, i) ==
  LET run == w.runs[r]
      has == IF run.g = w.renderToken
               THEN w.sentenceBtns[i] # "none"
               ELSE run.btns[i]
  IN IF has THEN <<run.g, i>> ELSE NoBtn

\* playOne without its call of stopCurrentAudio.
playOne_NoStop(w, u, b, r) ==
  LET w2 == SetSentenceBtn(w, b, "playing")
      w3 == [w2 EXCEPT !.currentlyPlaying = [audio |-> u, btn |-> b],
                       !.audio[u].listeners = @ \cup {r}]
  IN play(w3, u, RunAwaiter(u, r))

\* playOne(url, sentenceBtn) up to its await of audio.play(), called by run r.
playOne(w, u, b, r) ==
  LET w1 == stopCurrentAudio(w)
      w2 == SetSentenceBtn(w1, b, "playing")
      w3 == [w2 EXCEPT !.currentlyPlaying = [audio |-> u, btn |-> b],
                       !.audio[u].listeners = @ \cup {r}]
  IN play(w3, u, RunAwaiter(u, r))

\* The finally block without its comparison of the token with runToken.
runFinally_NoTokenCheck(w, r) ==
  LET g  == w.runs[r].g
      w1 == [w EXCEPT !.runs[r] = NoRun]
  IN stopCurrentAudio(
       [w1 EXCEPT !.lessonPlayback.running = FALSE,
                  !.lessonBtnText = IF g = w1.lessonPlayback.btn
                                      THEN "Play lesson" ELSE @])

\* The click handler of the play-lesson button from `catch` on: the run's
\* playLessonInOrder has returned or thrown.
runFinally(w, r) ==
  LET g  == w.runs[r].g
      w1 == [w EXCEPT !.runs[r] = NoRun]
  IN IF w1.lessonPlayback.token = r
       THEN stopCurrentAudio(
              [w1 EXCEPT !.lessonPlayback.running = FALSE,
                         !.lessonBtnText = IF g = w1.lessonPlayback.btn
                                             THEN "Play lesson" ELSE @])
       ELSE w1

\* playLessonInOrder at the head of its loop, for the run's index i.
playLessonInOrder(w, r) ==
  LET run == w.runs[r]
  IN IF run.i > Len(run.urls) THEN runFinally(w, r)
     ELSE IF w.lessonPlayback.token # r THEN runFinally(w, r)
     ELSE playOne([w EXCEPT !.runs[r].phase = "playOne"],
                  run.urls[run.i], RunBtn(w, r, run.i), r)

\* playLessonInOrder without the sleep between two sentences.
playOneResolved_NoSleep(w, r) ==
  LET run == w.runs[r]
  IN IF run.i < Len(run.urls)
       THEN IF w.lessonPlayback.token # r
              THEN runFinally(w, r)
              ELSE playLessonInOrder([w EXCEPT !.runs[r].i = @ + 1], r)
       ELSE runFinally(w, r)

\* playLessonInOrder after `await playOne(...)` has resolved.
playOneResolved(w, r) ==
  LET run == w.runs[r]
  IN IF run.i < Len(run.urls)
       THEN IF w.lessonPlayback.token # r
              THEN runFinally(w, r)
              ELSE [w EXCEPT !.runs[r].phase = "sleep"]
       ELSE runFinally(w, r)

\* A sequencer that skips a broken clip and goes on with the next one.
playOneRejected_SkipAhead(w, r) ==
  playLessonInOrder([w EXCEPT !.runs[r].i = @ + 1], r)

\* playLessonInOrder after `await playOne(...)` has thrown.
playOneRejected(w, r) == runFinally(w, r)

\* Run r is suspended in `await playOne(...)` on clip u.
AwaitsPlayOne(w, r, u) ==
  /\ w.runs[r].phase = "playOne"
  /\ w.runs[r].urls[w.runs[r].i] = u

onEnded(w, u, r) ==
  LET w1 == cleanup(w, u, r)
  IN IF AwaitsPlayOne(w, r, u) THEN playOneResolved(w1, r) ELSE w1

\* An error listener that removes the listeners and does not reject.
onError_NoReject(w, u, r) == cleanup(w, u, r)

onError(w, u, r) ==
  LET w1 == cleanup(w, u, r)
  IN IF AwaitsPlayOne(w, r, u) THEN playOneRejected(w1, r) ELSE w1

\* The catch of playOne: audio.play() of run r on clip u was rejected.
playOneCatch(w, u, r) ==
  LET w1 == cleanup(w, u, r)
  IN IF AwaitsPlayOne(w, r, u) THEN playOneRejected(w1, r) ELSE w1

\* The catch of the click handler without `audio.__missing = true`.
manualCatch_NoFlag(w, u) == stopCurrentAudio(w)

\* The catch of the sentence button's click handler: audio.play() rejected.
manualCatch(w, u) ==
  stopCurrentAudio([w EXCEPT !.audio[u].missing = TRUE])

\* The audio-level listeners attachAudioButton wires once per clip.
wiredEnded(w, u) ==
  IF w.audio[u].wired /\ w.currentlyPlaying.audio = u THEN stopCurrentAudio(w) ELSE w

wiredError(w, u) ==
  IF w.audio[u].wired
    THEN LET w1 == [w EXCEPT !.audio[u].missing = TRUE]
         IN IF w1.currentlyPlaying.audio = u THEN stopCurrentAudio(w1) ELSE w1
    ELSE w

\* attachAudioButton(playBtn, language, sentence) for the new button of line i.
attachAudioButton(w, i) ==
  [w EXCEPT !.audio[w.sentenceUrls[i]].wired = TRUE,
            !.sentenceBtns[i] = "idle"]

\* The sentence button's click handler without its first statement, the
\* stopLessonPlayback() of a running lesson.
sentenceBtnClick_NoCancel(w, i) ==
  LET u  == w.sentenceUrls[i]
      b  == <<w.renderToken, i>>
      w2 == IF w.currentlyPlaying.audio # NoAudio /\ w.currentlyPlaying.audio # u
              THEN stopCurrentAudio(w)
              ELSE w
  IN IF w2.currentlyPlaying.audio = u /\ ~Paused(w2, u)
       THEN stopCurrentAudio(w2)
       ELSE LET w3 == SetSentenceBtn(stopCurrentAudio(w2), b, "playing")
                w4 == [w3 EXCEPT !.currentlyPlaying = [audio |-> u, btn |-> b]]
            IN play(w4, u, ManualAwaiter(u))

\* The click handler of the sentence button of line i, up to its await.
sentenceBtnClick(w, i) ==
  LET u  == w.sentenceUrls[i]
      b  == <<w.renderToken, i>>
      w1 == IF w.lessonPlayback.running THEN stopLessonPlayback(w) ELSE w
      w2 == IF w1.currentlyPlaying.audio # NoAudio /\ w1.currentlyPlaying.audio # u
              THEN stopCurrentAudio(w1)
              ELSE w1
  IN IF w2.currentlyPlaying.audio = u /\ ~Paused(w2, u)
       THEN stopCurrentAudio(w2)
       ELSE LET w3 == SetSentenceBtn(stopCurrentAudio(w2), b, "playing")
                w4 == [w3 EXCEPT !.currentlyPlaying = [audio |-> u, btn |-> b]]
            IN play(w4, u, ManualAwaiter(u))

\* The click handler of the play-lesson button of the latest render, up to
\* the first await of the run it starts.
playLessonBtnClick(w) ==
  IF w.lessonPlayback.running
    THEN stopLessonPlayback(w)
    ELSE LET r  == w.lessonPlayback.token + 1
             w1 == [w EXCEPT !.lessonPlayback.running = TRUE,
                             !.lessonPlayback.token = r,
                             !.lessonBtnText = "Stop",
                             !.runs[r] = [g |-> w.renderToken,
                                          urls |-> w.sentenceUrls,
                                          btns |-> <<>>,
                                          i |-> 1,
                                          phase |-> "playOne"]]
         IN playLessonInOrder(w1, r)

(* ------------------------------- Images ------------------------------- *)

IMAGES_DIR == "Images"
IMAGE_EXT == "png"

\* `${IMAGES_DIR}/Lesson ${lessonId}.${IMAGE_EXT}`
ImageSrc(lessonId) == <<IMAGES_DIR, lessonId, IMAGE_EXT>>
NoSrc == <<>>       \* the img element has no src attribute

\* lessonImage.els: the document has #lessonImageWrap and #lessonImage;
\* display is lessonImageWrap.style.display; loads holds the Image objects
\* whose onload / onerror has not fired, one per call of updateLessonImage.
NoImageEls == [els |-> FALSE, src |-> NoSrc, alt |-> "", display |-> "none", loads |-> {}]
ImageEls == [els |-> TRUE, src |-> NoSrc, alt |-> "", display |-> "none", loads |-> {}]

\* img.onload of the Image object l.
imgOnload(w, l) ==
  [w EXCEPT !.lessonImage.src = ImageSrc(l.lessonId),
            !.lessonImage.alt = l.lessonId,
            !.lessonImage.display = "block",
            !.lessonImage.loads = @ \ {l}]

\* img.onerror of the Image object l.
imgOnerror(w, l) ==
  [w EXCEPT !.lessonImage.display = "none",
            !.lessonImage.loads = @ \ {l}]

\* updateLessonImage(lessonId), called by the render whose token is
\* w.renderToken: hide the slot and start the load of a new Image.
updateLessonImage(w, lessonId) ==
  IF ~w.lessonImage.els THEN w
  ELSE [w EXCEPT !.lessonImage.display = "none",
                 !.lessonImage.src = NoSrc,
                 !.lessonImage.alt = "",
                 !.lessonImage.loads = @ \cup {[lessonId |-> lessonId, g |-> w.renderToken]}]

(* ---------------------- Existence cache and render -------------------- *)

Null == "<null>"    \* null / a key absent from localStorage
Undefined == "<undefined>"      \* lessonIds[0] of an empty array

persistPreferences(w) ==
  [w EXCEPT !.storage = [lesson |-> IF w.model.currentLessonId \in {Null, Undefined}
                                      THEN "" ELSE w.model.currentLessonId,
                         lang |-> w.model.currentLanguage,
                         helperLang |-> w.model.helperLanguage]]

\* audioExists(url) answers from the cache when it has the key; otherwise it
\* issues a HEAD request and suspends until the response.
CacheHas(w, u) == u \in DOMAIN w.audioExistsCache

\* The per-line continuation without `if (renderToken !== myToken) return`.
lineExistsThen_NoTokenCheck(w, g, i, exists) ==
  IF ~exists THEN w ELSE attachAudioButton(w, i)

\* The continuation of the per-line audioExists(url).then(...) of render g.
lineExistsThen(w, g, i, exists) ==
  IF w.renderToken # g THEN w
  ELSE IF ~exists THEN w
  ELSE attachAudioButton(w, i)

\* The async block without `if (results.some((x) => !x)) return`.
gateThen_NoResultCheck(w, g) ==
  IF w.renderToken # g THEN w
  ELSE [w EXCEPT !.lessonPlayback.btn = g,
                 !.lessonBtnText = "Play lesson"]

\* The async block with the render generation guard inverted.
gateThen_GuardInverted(w, g) ==
  IF w.renderToken = g THEN w
  ELSE IF \E i \in DOMAIN w.gate.results : ~w.gate.results[i] THEN w
  ELSE [w EXCEPT !.lessonPlayback.btn = g,
                 !.lessonBtnText = "Play lesson"]

\* The async block of render g after `await Promise.all(...)`.
gateThen(w, g) ==
  IF w.renderToken # g THEN w
  ELSE IF \E i \in DOMAIN w.gate.results : ~w.gate.results[i] THEN w
  ELSE [w EXCEPT !.lessonPlayback.btn = g,
                 !.lessonBtnText = "Play lesson"]

\* One audioExists(u) of the Promise.all of render g has answered.
gateResult(w, g, i, exists) ==
  IF w.renderToken # g THEN w
  ELSE LET w1 == [w EXCEPT !.gate.results = (i :> exists) @@ @]
       IN IF DOMAIN w1.gate.results = DOMAIN w1.sentenceUrls
            THEN gateThen(w1, g)
            ELSE w1

\* audioExists(url) from its `await fetch` on: the response of request p.
audioExistsResume(w, p, ok) ==
  LET w1 == [w EXCEPT !.audioExistsCache = (p.url :> ok) @@ @,
                      !.probes = @ \ {p}]
  IN IF p.kind = "line"
       THEN lineExistsThen(w1, p.g, p.i, ok)
       ELSE gateResult(w1, p.g, p.i, ok)

\* (line.texts[model.currentLanguage] || "").trim()
sentenceOf(line, lang) ==
  IF lang \in DOMAIN line.texts THEN line.texts[lang] ELSE ""

RECURSIVE renderLines(_, _, _)
\* The per-line continuations that are ready when render returns (the
\* addresses the cache already knows), in line order.
renderLines(w, g, i) ==
  IF i > Len(w.sentenceUrls) THEN w
  ELSE LET u == w.sentenceUrls[i]
       IN IF u # NoUrl /\ CacheHas(w, u)
            THEN renderLines(lineExistsThen(w, g, i, w.audioExistsCache[u]), g, i + 1)
            ELSE renderLines(w, g, i + 1)

render(w) ==
  LET g      == w.renderToken + 1
      found  == w.model.currentLessonId \in DOMAIN w.model.lessons
      lines  == w.model.lessons[w.model.currentLessonId]
      lang   == w.model.currentLanguage
      urls   == [i \in 1..Len(lines) |->
                   IF sentenceOf(lines[i], lang) = "" THEN NoUrl
                   ELSE buildAudioUrl(lang, sentenceOf(lines[i], lang))]
      misses == {i \in 1..Len(urls) : urls[i] # NoUrl /\ ~CacheHas(w, urls[i])}
      hits   == {i \in 1..Len(urls) : urls[i] # NoUrl /\ CacheHas(w, urls[i])}
      gated  == \A i \in 1..Len(urls) : urls[i] # NoUrl
      old    == w.sentenceBtns
      w0 == updateLessonImage([w EXCEPT !.renderToken = g], w.model.currentLessonId)
      w1 == [w0 EXCEPT
               !.renderToken = g,
               !.page = "lesson",
               !.sentenceUrls = urls,
               !.sentenceBtns = [i \in 1..Len(urls) |-> "none"],
               !.runs = [r \in RunIds |->
                           IF @[r].phase # "none" /\ @[r].g = w.renderToken
                             THEN [@[r] EXCEPT !.btns = [i \in DOMAIN old |-> old[i] # "none"]]
                             ELSE @[r]],
               !.probes = @ \cup {[url |-> urls[i], g |-> g, kind |-> "line", i |-> i] : i \in misses}
                            \cup (IF gated
                                    THEN {[url |-> urls[i], g |-> g, kind |-> "gate", i |-> i] : i \in misses}
                                    ELSE {}),
               !.gate = [active |-> gated,
                         results |-> IF gated
                                       THEN [i \in hits |-> w.audioExistsCache[urls[i]]]
                                       ELSE << >>]]
      w2 == renderLines(w1, g, 1)
  IN IF ~found THEN [w EXCEPT !.renderToken = g]
     ELSE IF gated /\ misses = {} THEN gateThen(w2, g)
     ELSE w2

(* ------------------------------ wireUI -------------------------------- *)

\* The lesson select's change handler without stopLessonPlayback().
lessonSelectChange_NoStop(w, id) ==
  render(persistPreferences([w EXCEPT !.model.currentLessonId = id]))

lessonSelectChange(w, id) ==
  render(stopLessonPlayback(persistPreferences(
    [w EXCEPT !.model.currentLessonId = id])))

\* The change handler of the language select without the check of the
\* helper language against the new language.
languageSelectChange_KeepsHelper(w, v) ==
  render(stopLessonPlayback(persistPreferences(
    [w EXCEPT !.model.currentLanguage = v])))

languageSelectChange(w, v) ==
  LET w1 == [w EXCEPT !.model.currentLanguage = v]
      w2 == IF w1.model.helperLanguage = w1.model.currentLanguage
              THEN [w1 EXCEPT !.model.helperLanguage = Null]
              ELSE w1
  IN render(stopLessonPlayback(persistPreferences(w2)))

\* The change handler of the helper language select without its call of
\* stopLessonPlayback.
helperLanguageSelectChange_NoStop(w, v) ==
  LET w1 == [w EXCEPT !.model.helperLanguage = IF v # "" THEN v ELSE Null]
      w2 == IF w1.model.helperLanguage = w1.model.currentLanguage
              THEN [w1 EXCEPT !.model.helperLanguage = Null]
              ELSE w1
  IN render(persistPreferences(w2))

helperLanguageSelectChange(w, v) ==
  LET w1 == [w EXCEPT !.model.helperLanguage = IF v # "" THEN v ELSE Null]
      w2 == IF w1.model.helperLanguage = w1.model.currentLanguage
              THEN [w1 EXCEPT !.model.helperLanguage = Null]
              ELSE w1
  IN render(stopLessonPlayback(persistPreferences(w2)))

prevLessonClick(w) ==
  LET idx == IndexOf(w.model.lessonIds, w.model.currentLessonId)
  IN IF idx > 1
       THEN render(stopLessonPlayback(persistPreferences(
              [w EXCEPT !.model.currentLessonId = w.model.lessonIds[idx - 1]])))
       ELSE w

\* A first listener of the next button that moves as the second one does.
nextLessonClickPlaceholder_Moves(w) ==
  LET idx == IndexOf(w.model.lessonIds, w.model.currentLessonId)
  IN IF idx >= 1 /\ idx < Len(w.model.lessonIds)
       THEN render(stopLessonPlayback(persistPreferences(
              [w EXCEPT !.model.currentLessonId = w.model.lessonIds[idx + 1]])))
       ELSE w

\* The first click listener of the next button: idx < undefined is false,
\* and the body is a comment.
nextLessonClickPlaceholder(w) == w

\* Two click listeners are bound to the next button; the first one reads
\* model.modelLessonIdsLengthMinusOne (undefined) and has an empty body.
nextLessonClick(w0) ==
  LET w   == nextLessonClickPlaceholder(w0)
      idx == IndexOf(w.model.lessonIds, w.model.currentLessonId)
  IN IF idx >= 1 /\ idx < Len(w.model.lessonIds)
       THEN render(stopLessonPlayback(persistPreferences(
              [w EXCEPT !.model.currentLessonId = w.model.lessonIds[idx + 1]])))
       ELSE w

(* ------------------------ media element events ------------------------ *)

RECURSIVE fireEnded(_, _, _)
\* The onEnded listeners of the runs rs bound to clip u, in binding order.
fireEnded(w, u, rs) ==
  IF rs = {} THEN w
  ELSE LET r == CHOOSE x \in rs : \A y \in rs : x <= y
       IN fireEnded(onEnded(w, u, r), u, rs \ {r})

RECURSIVE fireError(_, _, _)
fireError(w, u, rs) ==
  IF rs = {} THEN w
  ELSE LET r == CHOOSE x \in rs : \A y \in rs : x <= y
       IN fireError(onError(w, u, r), u, rs \ {r})

\* The continuation of one rejected audio.play() promise.
playRejected(w, a) ==
  IF a.kind = "manual" THEN manualCatch(w, a.url) ELSE playOneCatch(w, a.url, a.run)

RECURSIVE rejectAll(_, _)
rejectAll(w, as) ==
  IF as = {} THEN w
  ELSE LET a == CHOOSE x \in as : \A y \in as : x.run <= y.run
       IN rejectAll(playRejected(w, a), as \ {a})

\* The media element tasks of the page run in the order they were queued: a
\* queued AbortError rejection precedes every later media element event.
\* Clicks, timers and fetch responses come from other task sources and may
\* overtake it.
NoAbortQueued == aborted = {}

\* Playback of clip u begins: the pending play() promises resolve, and the
\* code awaiting them has nothing left to do.
PlayStarted(u) ==
  /\ audio[u].pending # {}
  /\ audio[u].status \in {"starting", "playing"}
  /\ u \in serverHas
  /\ NoAbortQueued
  /\ Env([W EXCEPT !.audio[u].status = "playing", !.audio[u].pending = {}])

\* Clip u reaches its end: the element pauses itself and fires "ended".
ended(w, u) ==
  LET w1 == [w EXCEPT !.audio[u].status = "paused"]
      w2 == wiredEnded(w1, u)
  IN fireEnded(w2, u, w2.audio[u].listeners)

Ended(u) ==
  /\ audio[u].status = "playing"
  /\ audio[u].pending = {}
  /\ NoAbortQueued
  /\ Env(ended(W, u))

\* Clip u fails to load or to decode: "error" fires and the pending play()
\* promises are rejected.
error(w, u) ==
  LET w1 == [w EXCEPT !.audio[u].status = "failed", !.audio[u].pending = {}]
      w2 == wiredError(w1, u)
      w3 == fireError(w2, u, w2.audio[u].listeners)
  IN rejectAll(w3, w.audio[u].pending)

AudioError(u) ==
  /\ audio[u].status \in {"starting", "playing"}
  /\ NoAbortQueued
  /\ Env(error(W, u))

\* The AbortError of a play() promise that pause() took is delivered.
AbortDelivered(a) ==
  /\ a \in aborted
  /\ Env(playRejected([W EXCEPT !.aborted = @ \ {a}], a))

\* The 1-second sleep of run r is over: the loop goes on with the next index.
sleepElapsed(w, r) == playLessonInOrder([w EXCEPT !.runs[r].i = @ + 1], r)

SleepElapsed(r) ==
  /\ runs[r].phase = "sleep"
  /\ Env(sleepElapsed(W, r))

(* ------------------------------ network ------------------------------- *)

\* The HEAD request p is answered: res.ok is true only for a clip the server
\* holds; a status that is not ok and a network error both yield false.
FetchResponse(p, ok) ==
  /\ p \in probes
  /\ ok => p.url \in serverHas
  /\ Env(audioExistsResume(W, p, ok))

\* A clip is added to the server's Audio directory.
ClipUploaded(u) ==
  /\ u \notin serverHas
  /\ Env([W EXCEPT !.serverHas = @ \cup {u}])

(* ------------------------------ user ---------------------------------- *)

SentenceBtnClick(i) ==
  /\ i \in DOMAIN sentenceBtns
  /\ sentenceBtns[i] # "none"
  /\ User(sentenceBtnClick(W, i))

\* The play-lesson button is in the document when the latest render made it.
PlayLessonOffered == lessonPlayback.btn = renderToken

PlayLessonBtnClick ==
  /\ PlayLessonOffered
  /\ User(playLessonBtnClick(W))

\* The user changes the lesson, the language or the helper language once the
\* page has settled: no HEAD request of an earlier render is still in flight.
Settled == probes = {}

LessonSelectChange(id) ==
  /\ Settled
  /\ id # model.currentLessonId
  /\ User(lessonSelectChange(W, id))

LanguageSelectChange(v) ==
  /\ Settled
  /\ v # model.currentLanguage
  /\ User(languageSelectChange(W, v))

HelperLanguageSelectChange(v) ==
  /\ Settled
  /\ v # (IF model.helperLanguage = Null THEN "" ELSE model.helperLanguage)
  /\ User(helperLanguageSelectChange(W, v))

\* render disables the prev button on the first lesson and the next button
\* on the last one; a disabled button dispatches no click.
PrevLessonClick ==
  /\ Settled
  /\ IndexOf(model.lessonIds, model.currentLessonId) > 1
  /\ User(prevLessonClick(W))

NextLessonClick ==
  /\ Settled
  /\ IndexOf(model.lessonIds, model.currentLessonId) < Len(model.lessonIds)
  /\ User(nextLessonClick(W))

(* --------------------------- specification ---------------------------- *)

\* The state init() leaves: preferences hydrated and validated by buildModel,
\* stopLessonPlayback() called once, the first render done.  The document
\* has no image slot here (updateLessonImage returns at once); nothing else
\* reads the slot, and ImageSpec is the page that has it.
Loaded(id, lang, has) ==
  [model |-> [lessons |-> Lessons, lessonIds |-> LessonIds, languages |-> Languages,
               currentLessonId |-> id, currentLanguage |-> lang, helperLanguage |-> Null],
   storage |-> [lesson |-> id, lang |-> lang, helperLang |-> Null],
   renderToken |-> 0,
   sentenceUrls |-> << >>,
   sentenceBtns |-> << >>,
   gate |-> [active |-> FALSE, results |-> << >>],
   audioExistsCache |-> << >>,
   probes |-> {},
   serverHas |-> has,
   currentlyPlaying |-> [audio |-> NoAudio, btn |-> NoBtn],
   audio |-> [u \in URLS |-> [status |-> "paused", pending |-> {}, listeners |-> {},
                              wired |-> FALSE, missing |-> FALSE]],
   aborted |-> {},
   lessonPlayback |-> [running |-> FALSE, token |-> 0, btn |-> 0],
   lessonBtnText |-> "Play lesson",
   runs |-> [r \in RunIds |-> NoRun],
   lessonImage |-> NoImageEls,
   page |-> "lesson"]

Start(w) ==
  /\ model = w.model
  /\ storage = w.storage
  /\ renderToken = w.renderToken
  /\ sentenceUrls = w.sentenceUrls
  /\ sentenceBtns = w.sentenceBtns
  /\ gate = w.gate
  /\ audioExistsCache = w.audioExistsCache
  /\ probes = w.probes
  /\ serverHas = w.serverHas
  /\ currentlyPlaying = w.currentlyPlaying
  /\ audio = w.audio
  /\ aborted = w.aborted
  /\ lessonPlayback = w.lessonPlayback
  /\ lessonBtnText = w.lessonBtnText
  /\ runs = w.runs
  /\ lessonImage = w.lessonImage
  /\ page = w.page
  /\ inputs = 0

Init ==
  \E id \in SeqToSet(LessonIds), lang \in SeqToSet(Languages), has \in SUBSET URLS :
    Start(render(stopLessonPlayback(Loaded(id, lang, has))))

Next ==
  \/ \E i \in 1..2 : SentenceBtnClick(i)
  \/ PlayLessonBtnClick
  \/ \E id \in SeqToSet(LessonIds) : LessonSelectChange(id)
  \/ \E v \in SeqToSet(Languages) : LanguageSelectChange(v)
  \/ \E v \in SeqToSet(Languages) \cup {""} : HelperLanguageSelectChange(v)
  \/ PrevLessonClick
  \/ NextLessonClick
  \/ \E u \in URLS : PlayStarted(u)
  \/ \E u \in URLS : Ended(u)
  \/ \E u \in URLS : AudioError(u)
  \/ \E a \in aborted : AbortDelivered(a)
  \/ \E r \in RunIds : SleepElapsed(r)
  \/ \E p \in probes, ok \in BOOLEAN : FetchResponse(p, ok)
  \/ \E u \in URLS : ClipUploaded(u)

Spec == Init /\ [][Next]_vars

(* ------------------------------ properties ---------------------------- *)

\* A clip that is playing or about to play (play() called, not yet paused,
\* ended or failed).
Active(a) == a.status \in {"starting", "playing"}

RunUrl(run) == run.urls[run.i]
StaleRun(r) == runs[r].phase # "none" /\ lessonPlayback.token # r
LiveRun(r) == runs[r].phase # "none" /\ lessonPlayback.token = r

\* C1: in every reachable state at most one clip is active, and an active
\* clip is the one held in currentlyPlaying.
C1_AtMostOneActiveClip ==
  /\ Cardinality({u \in URLS : Active(audio[u])}) <= 1
  /\ \A u \in URLS : Active(audio[u]) => currentlyPlaying.audio = u

\* A lesson run plays a clip while the rejection of an earlier manual play
\* is still queued: both playback modes have been interleaved.
C1_Witness ==
  \E u \in URLS :
    /\ audio[u].status = "starting"
    /\ currentlyPlaying.audio = u
    /\ lessonPlayback.running
    /\ \E a \in aborted : a.kind = "manual"

\* C2: a run starts its clips in index order, one at a time: clip 1 when
\* the run is created, clip i+1 only in the step that ends the sleep after
\* clip i, and that sleep begins only in the step in which clip i, playing,
\* reaches its end.
C2_StrictOrder ==
  [][\A r \in RunIds :
       LET a == runs[r]
           b == runs'[r]
       IN /\ (b.phase = "playOne" /\ (a.phase # "playOne" \/ a.i # b.i)) =>
               /\ \/ a.phase = "none" /\ b.i = 1
                  \/ a.phase = "sleep" /\ b.i = a.i + 1
               /\ b.i <= Len(b.urls)
               /\ audio'[RunUrl(b)].status = "starting"
               /\ currentlyPlaying'.audio = RunUrl(b)
          /\ (b.phase = "sleep" /\ a.phase # "sleep") =>
               /\ a.phase = "playOne"
               /\ b.i = a.i
               /\ audio[RunUrl(a)].status = "playing"
               /\ audio'[RunUrl(a)].status = "paused"
          /\ (a.phase = "sleep" /\ b.phase = "sleep") => b.i = a.i
    ]_vars

\* The second clip of a live run is playing.
C2_Witness ==
  \E r \in RunIds :
    /\ LiveRun(r)
    /\ runs[r].phase = "playOne"
    /\ runs[r].i = 2
    /\ audio[RunUrl(runs[r])].status = "playing"

\* What stopLessonPlayback leaves behind, given the state w0 it was called in.
Cancelled(w0, w) ==
  /\ ~w.lessonPlayback.running
  /\ w.lessonPlayback.token > w0.lessonPlayback.token
  /\ \A u \in URLS : ~Active(w.audio[u])
  /\ w.currentlyPlaying = [audio |-> NoAudio, btn |-> NoBtn]
  /\ \A i \in DOMAIN w.sentenceBtns : w.sentenceBtns[i] # "playing"

\* C3: at any point of a run (a start pending, a clip playing, the sleep
\* between two clips) a call of stopLessonPlayback leaves the sequencer
\* idle, the token greater, no clip active, the slot empty and no sentence
\* button showing the playing state.
C3_CancelLeavesIdle ==
  lessonPlayback.running => Cancelled(W, stopLessonPlayback(W))

\* A run has been cancelled while it was waiting for its clip: it is still
\* suspended, the sequencer is idle and nothing plays.
C3_Witness ==
  /\ \E r \in RunIds : StaleRun(r) /\ runs[r].phase = "playOne"
  /\ Cancelled([lessonPlayback |-> [token |-> 1]], W)

\* C4: while the sequencer is running, the slot holds nothing or the clip of
\* the live run, never a clip a sentence button started; and a click on a
\* sentence button during a run leaves the sequencer idle with a new token.
C4_ManualPlayCancelsRun ==
  lessonPlayback.running =>
    /\ LiveRun(lessonPlayback.token)
    /\ currentlyPlaying.audio \in {NoAudio, RunUrl(runs[lessonPlayback.token])}
    /\ \A u \in URLS : ManualAwaiter(u) \notin audio[u].pending
    /\ \A i \in DOMAIN sentenceBtns :
         sentenceBtns[i] # "none" =>
           LET w == sentenceBtnClick(W, i)
           IN /\ ~w.lessonPlayback.running
              /\ w.lessonPlayback.token > lessonPlayback.token

\* A sentence button was clicked during a run: its clip is starting, the
\* run is stale and the sequencer idle.
C4_Witness ==
  /\ ~lessonPlayback.running
  /\ \E r \in RunIds : StaleRun(r)
  /\ \E u \in URLS : /\ currentlyPlaying.audio = u
                     /\ ManualAwaiter(u) \in audio[u].pending

\* Everything a continuation of run r may have touched is the same in w as
\* in w0, apart from the run's own record and its listeners.
Untouched(w0, w, r) ==
  /\ w.lessonPlayback = w0.lessonPlayback
  /\ w.lessonBtnText = w0.lessonBtnText
  /\ w.currentlyPlaying = w0.currentlyPlaying
  /\ w.sentenceBtns = w0.sentenceBtns
  /\ w.aborted = w0.aborted
  /\ \A u \in URLS : /\ w.audio[u].status = w0.audio[u].status
                     /\ w.audio[u].pending = w0.audio[u].pending
                     /\ w.audio[u].missing = w0.audio[u].missing
                     /\ w.audio[u].listeners \ {r} = w0.audio[u].listeners \ {r}
  /\ \A q \in RunIds \ {r} : w.runs[q] = w0.runs[q]
  /\ w.runs[r] = NoRun

\* C5: whichever wait of a stale run is over (the sleep, the end of its
\* clip, an error of its clip, the rejection of its play()), the run
\* returns without starting a clip and without changing lessonPlayback, the
\* lesson button, the slot, a sentence button or another run.
C5_StaleRunIsSilent ==
  \A r \in RunIds :
    StaleRun(r) =>
      IF runs[r].phase = "sleep"
        THEN Untouched(W, sleepElapsed(W, r), r)
        ELSE LET u == RunUrl(runs[r])
             IN /\ Untouched(W, onEnded(W, u, r), r)
                /\ Untouched(W, onError(W, u, r), r)
                /\ Untouched(W, playOneCatch(W, u, r), r)

\* A newer run plays the clip an older, cancelled run still listens to.
C5_Witness ==
  \E r \in RunIds, q \in RunIds :
    /\ StaleRun(r) /\ runs[r].phase = "playOne"
    /\ LiveRun(q) /\ runs[q].phase = "playOne"
    /\ lessonPlayback.running
    /\ RunUrl(runs[r]) = RunUrl(runs[q])
    /\ audio[RunUrl(runs[q])].status = "playing"

\* The state a failed run leaves.
RunEnded(w, r) ==
  /\ w.runs[r] = NoRun
  /\ ~w.lessonPlayback.running
  /\ w.lessonBtnText = "Play lesson"
  /\ w.currentlyPlaying = [audio |-> NoAudio, btn |-> NoBtn]
  /\ \A i \in DOMAIN w.sentenceBtns : w.sentenceBtns[i] # "playing"
  /\ \A u \in URLS : ~Active(w.audio[u])

\* C6: when the clip of the live run fails (an error event while it starts
\* or plays, or the rejection of its play()), the run is over: sequencer
\* idle, lesson button and sentence button idle, slot empty, no clip
\* active, and the run is not suspended anywhere from where it could start
\* a further clip.
C6_FailureEndsRun ==
  \A r \in RunIds :
    (LiveRun(r) /\ lessonPlayback.running /\ runs[r].phase = "playOne") =>
      LET u == RunUrl(runs[r])
      IN /\ (Active(audio[u]) /\ NoAbortQueued) => RunEnded(error(W, u), r)
         /\ RunAwaiter(u, r) \in aborted =>
              RunEnded(playRejected([W EXCEPT !.aborted = @ \ {RunAwaiter(u, r)}],
                                    RunAwaiter(u, r)), r)

\* The only input was a click on the play-lesson button, and a clip of that
\* run has failed: the run is gone and everything is idle.
C6_Witness ==
  /\ inputs = 1 /\ lessonPlayback.token = 2 /\ renderToken = 1
  /\ \E u \in URLS : audio[u].missing
  /\ RunEnded(W, 2)

\* The scheduling the browser provides: a clip that was started begins to
\* play, ends or fails; a queued rejection is delivered; a timer fires. The
\* event loop does not stop while one of these tasks is ready. Nothing is
\* assumed of the user or of the network.
EventLoop ==
  \/ \E u \in URLS : PlayStarted(u) \/ Ended(u) \/ AudioError(u)
  \/ \E a \in aborted : AbortDelivered(a)
  \/ \E r \in RunIds : SleepElapsed(r)

FairSpec == Spec /\ WF_vars(EventLoop)

C8_OfferedOnlyWhenAllExist ==
  /\ PlayLessonOffered =>
       /\ \A i \in DOMAIN sentenceUrls :
            /\ model.lessons[model.currentLessonId][i].texts[model.currentLanguage] # ""
            /\ sentenceUrls[i] # NoUrl
            /\ i \in DOMAIN gate.results
            /\ gate.results[i]
       /\ LET w == playLessonBtnClick(W)
              r == w.lessonPlayback.token
          IN (inputs < MaxInputs /\ ~lessonPlayback.running) =>
                  /\ w.runs[r].phase = "playOne"
                  /\ w.runs[r].urls = sentenceUrls
  /\ \A r \in RunIds :
       runs[r].phase # "none" =>
         \A i \in DOMAIN runs[r].urls : runs[r].urls[i] # NoUrl

\* A run started from the offered button is playing.
C8_Witness ==
  /\ PlayLessonOffered
  /\ lessonPlayback.running
  /\ LiveRun(lessonPlayback.token)
  /\ \E u \in URLS : audio[u].status = "playing"

\* The Promise.all of the latest render has every result.
GateComplete == gate.active /\ DOMAIN gate.results = DOMAIN sentenceUrls

\* C9 (as the code has it): once audioExists has answered for every line of
\* the latest render, the play-lesson button is in the document exactly if
\* every answer was true; and an answer taken from the cache is the cached
\* boolean, so a render that finds false cached for one of its addresses
\* does not offer the button, whether or not the clip exists by then.
C9_OfferedIffResultsTrue ==
  /\ [](GateComplete =>
          (PlayLessonOffered <=> \A i \in DOMAIN gate.results : gate.results[i]))
  /\ [][renderToken' # renderToken =>
          \A i \in DOMAIN sentenceUrls' :
            (sentenceUrls'[i] \in DOMAIN audioExistsCache
               /\ ~audioExistsCache[sentenceUrls'[i]]) =>
              ~PlayLessonOffered']_vars

\* A render found false cached for a clip the server holds: every clip of
\* the displayed lesson exists and the button is not offered.
C9_Witness ==
  /\ renderToken > 1
  /\ GateComplete
  /\ probes = {}
  /\ \A i \in DOMAIN sentenceUrls : sentenceUrls[i] \in serverHas
  /\ \E i \in DOMAIN sentenceUrls : ~gate.results[i]
  /\ ~PlayLessonOffered

\* C9 (as claimed): a render of a lesson whose clips all exist offers the
\* play-lesson button; here for a render that has every answer at once.
C9_OfferedWhenAudioExists ==
  [][(/\ renderToken' # renderToken
      /\ \A i \in DOMAIN sentenceUrls' : sentenceUrls'[i] \in serverHas
      /\ probes' = {})
       => PlayLessonOffered']_vars

\* C10 (as claimed): a boolean held by audioExistsCache never changes.
C10_CacheNeverChanges ==
  [][\A u \in DOMAIN audioExistsCache :
       /\ u \in DOMAIN audioExistsCache'
       /\ audioExistsCache'[u] = audioExistsCache[u]]_vars

\* C11 (as claimed): no address has two HEAD requests; here, two in flight
\* at the same time.
C11_OneProbePerAddress ==
  \A p \in probes, q \in probes : p.url = q.url => p = q

(* ------------- a change while the first render's requests are out ------ *)

\* The first thing the user does is to change the lesson or the language
\* while HEAD requests of the initial render are still in flight.
FirstInputUnsettled == inputs = 0 /\ ~Settled

EarlyLessonSelectChange(id) ==
  /\ FirstInputUnsettled
  /\ id # model.currentLessonId
  /\ User(lessonSelectChange(W, id))

EarlyLanguageSelectChange(v) ==
  /\ FirstInputUnsettled
  /\ v # model.currentLanguage
  /\ User(languageSelectChange(W, v))

EarlyHelperLanguageSelectChange(v) ==
  /\ FirstInputUnsettled
  /\ v # (IF model.helperLanguage = Null THEN "" ELSE model.helperLanguage)
  /\ User(helperLanguageSelectChange(W, v))

RaceNext ==
  \/ Next
  \/ \E id \in SeqToSet(LessonIds) : EarlyLessonSelectChange(id)
  \/ \E v \in SeqToSet(Languages) : EarlyLanguageSelectChange(v)
  \/ \E v \in SeqToSet(Languages) \cup {""} : EarlyHelperLanguageSelectChange(v)

RaceSpec == Init /\ [][RaceNext]_vars

\* C12: the response of a HEAD request that a superseded render sent
\* changes audioExistsCache and nothing else: no sentence button, no
\* play-lesson button, lessonPlayback and every clip as they were.
C12_StaleResultDiscarded ==
  \A p \in probes :
    p.g # renderToken =>
      \A ok \in BOOLEAN :
        audioExistsResume(W, p, ok) =
          [W EXCEPT !.audioExistsCache = (p.url :> ok) @@ @,
                    !.probes = @ \ {p}]

\* A request of the first render was answered true after the second render
\* had asked for the same address again: the cache has the answer, the
\* second render's own requests are still out, and there is no button.
C12_Witness ==
  /\ renderToken = 2
  /\ ~PlayLessonOffered
  /\ \A i \in DOMAIN sentenceBtns : sentenceBtns[i] = "none"
  /\ \E i \in DOMAIN sentenceUrls :
       LET u == sentenceUrls[i]
       IN /\ u # NoUrl
          /\ u \in DOMAIN audioExistsCache
          /\ audioExistsCache[u]
          /\ [url |-> u, g |-> 2, kind |-> "line", i |-> i] \in probes
          /\ [url |-> u, g |-> 2, kind |-> "gate", i |-> i] \in probes

\* C13: while the sequencer is running, the live run's targets are the
\* sentenceUrls of the latest render; a clip that is starting or playing is
\* a target of the latest render; and a step that renders leaves the
\* sequencer idle with a greater token and no clip active.
C13_NoStaleTargets ==
  /\ [](lessonPlayback.running =>
          LET run == runs[lessonPlayback.token]
          IN /\ run.phase # "none"
             /\ run.g = renderToken
             /\ run.urls = sentenceUrls)
  /\ [](\A u \in URLS :
          Active(audio[u]) => \E i \in DOMAIN sentenceUrls : sentenceUrls[i] = u)
  /\ [][renderToken' # renderToken =>
          /\ ~lessonPlayback'.running
          /\ lessonPlayback'.token > lessonPlayback.token
          /\ \A u \in URLS : ~Active(audio'[u])]_vars

\* A run of the second render plays its clip while a run of the first
\* render, cancelled by the change, is still suspended.
C13_Witness ==
  /\ renderToken >= 2
  /\ lessonPlayback.running
  /\ \E r \in RunIds :
       /\ LiveRun(r) /\ runs[r].g = renderToken
       /\ audio[RunUrl(runs[r])].status = "playing"
  /\ \E q \in RunIds : StaleRun(q) /\ runs[q].g < renderToken

\* The state with the queued rejection a taken off the queue, as its
\* delivery finds it.
Delivering(a) == [W EXCEPT !.aborted = @ \ {a}]

SlotIdle(w) ==
  /\ w.currentlyPlaying = [audio |-> NoAudio, btn |-> NoBtn]
  /\ \A i \in DOMAIN w.sentenceBtns : w.sentenceBtns[i] # "playing"

\* C14 (as the code has it): a rejected play() of a sentence button flags
\* the clip and calls stopCurrentAudio (slot empty, no button playing). A
\* rejected play() of a lesson run removes the run's listeners and ends the
\* run; that path does not touch the flag, and it empties the slot only if
\* the run is still the current one. A flag that is set stays set.
C14_RejectedPlay ==
  /\ [](\A a \in aborted :
          LET w == playRejected(Delivering(a), a)
          IN IF a.kind = "manual"
               THEN w.audio[a.url].missing /\ SlotIdle(w)
               ELSE /\ w.audio[a.url].missing = audio[a.url].missing
                    /\ a.run \notin w.audio[a.url].listeners
                    /\ w.runs[a.run] = NoRun
                    /\ IF StaleRun(a.run)
                         THEN w.currentlyPlaying = currentlyPlaying
                         ELSE SlotIdle(w) /\ ~w.lessonPlayback.running)
  /\ [](\A u \in URLS :
          (ManualAwaiter(u) \in audio[u].pending /\ NoAbortQueued) =>
            LET w == error(W, u)
            IN w.audio[u].missing /\ SlotIdle(w))
  /\ [][\A u \in URLS : audio[u].missing => audio'[u].missing]_vars

\* The rejection of a run's play() is queued while the run is still the
\* current one, and its clip is not flagged.
C14_Witness ==
  \E a \in aborted :
    /\ a.kind = "run"
    /\ LiveRun(a.run)
    /\ lessonPlayback.running
    /\ ~audio[a.url].missing
    /\ \E u \in URLS : audio[u].missing

\* C14 (as claimed): every rejected play(), of a sentence button or of a
\* run, leaves the clip flagged, the slot empty and no button playing.
C14_RejectedPlayFlagsAndStops ==
  \A a \in aborted :
    LET w == playRejected(Delivering(a), a)
    IN w.audio[a.url].missing /\ SlotIdle(w)

\* C15: a run's pair of listeners is bound to a clip only while the run's
\* playOne on that clip is unsettled; whichever way the wait settles (the
\* clip ends, the clip errors, play() is rejected), the pair is off the
\* clip when the run goes on.
C15_SettledWaitLeavesNoListener ==
  /\ \A u \in URLS : \A r \in audio[u].listeners : AwaitsPlayOne(W, r, u)
  /\ \A r \in RunIds : \A u \in URLS :
       (runs[r].phase = "playOne" /\ AwaitsPlayOne(W, r, u)) =>
         /\ r \notin onEnded(W, u, r).audio[u].listeners
         /\ r \notin onError(W, u, r).audio[u].listeners
         /\ r \notin playOneCatch(W, u, r).audio[u].listeners

\* The live run's first clip has ended and the run sleeps with no listener
\* bound, while a cancelled run is still bound to another clip.
C15_Witness ==
  \E r \in RunIds, q \in RunIds :
    /\ LiveRun(r) /\ runs[r].phase = "sleep"
    /\ \A u \in URLS : r \notin audio[u].listeners
    /\ StaleRun(q)
    /\ \E u \in URLS : q \in audio[u].listeners

(* --------------------------- loading the CSV --------------------------- *)

MaxRows == 2        \* data lines of Readable.csv

\* a.localeCompare(b) for lesson ids: -1, 0 or 1 by code unit order.
StringOrder == <<"", "1", "10", "2", "undefined">>
localeCompare(a, b) ==
  IF a = b THEN 0
  ELSE IF IndexOf(StringOrder, a) < IndexOf(StringOrder, b) THEN 0 - 1 ELSE 1

\* The text of Readable.csv after parseCSVLine: the non-blank lines, each a
\* sequence of trimmed cells, the header first.
Headers ==
  { <<"Lesson", "Line", "CEFR", "English">>,
    <<"Lesson", "Line", "CEFR">>,
    <<"Lesson", "Line", "CEFR", "Norsk", "English">> }
DataLines == {<<l, n, "A1", t>> : l \in {"", "2", "10"}, n \in {"1", "2"}, t \in {"", "Hi."}}
RECURSIVE SeqsUpTo(_, _)
SeqsUpTo(S, n) ==
  IF n = 0 THEN {<< >>}
  ELSE LET shorter == SeqsUpTo(S, n - 1)
       IN shorter \cup {Append(s, x) : s \in {t \in shorter : Len(t) = n - 1}, x \in S}
CsvTexts ==
  {<< >>} \cup {<<h>> \o d : h \in Headers, d \in SeqsUpTo(DataLines, MaxRows)}

\* parseCSV: one row object per data line, keyed by the header cells; a
\* cell the line does not have is "".
parseCSV(text) ==
  IF Len(text) = 0 THEN << >>
  ELSE LET header == text[1]
       IN [k \in 1..(Len(text) - 1) |->
             [keys |-> header,
              get  |-> [c \in SeqToSet(header) |->
                          LET pos == IndexOf(header, c)
                          IN IF pos <= Len(text[k + 1]) THEN text[k + 1][pos] ELSE ""]]]

\* String(r[key]) of a row object.
Cell(r, key) == IF key \in DOMAIN r.get THEN r.get[key] ELSE "undefined"

RECURSIVE insertLine(_, _)
\* Array.prototype.sort is stable: x goes behind every line that does not
\* compare greater (a NaN difference counts as 0).
insertLine(sorted, x) ==
  IF sorted = << >> THEN <<x>>
  ELSE LET last == sorted[Len(sorted)]
           greater == ~last.lineNo.nan /\ ~x.lineNo.nan /\ last.lineNo.val > x.lineNo.val
       IN IF greater
            THEN Append(insertLine(SubSeq(sorted, 1, Len(sorted) - 1), x), last)
            ELSE Append(sorted, x)

RECURSIVE sortLines(_)
\* lesson.lines.sort((x, y) => x.lineNo - y.lineNo)
sortLines(lines) ==
  IF lines = << >> THEN << >>
  ELSE insertLine(sortLines(SubSeq(lines, 1, Len(lines) - 1)), lines[Len(lines)])

\* (a, b) => Number(a) - Number(b) || a.localeCompare(b)
compareLessonIds(a, b) ==
  LET nan == Number(a).nan \/ Number(b).nan
      d   == Number(a).val - Number(b).val
  IN IF nan \/ d = 0 THEN localeCompare(a, b) ELSE d

RECURSIVE insertLessonId(_, _)
insertLessonId(sorted, x) ==
  IF sorted = << >> THEN <<x>>
  ELSE LET last == sorted[Len(sorted)]
       IN IF compareLessonIds(last, x) > 0
            THEN Append(insertLessonId(SubSeq(sorted, 1, Len(sorted) - 1), x), last)
            ELSE Append(sorted, x)

RECURSIVE sortLessonIds(_)
sortLessonIds(ids) ==
  IF ids = << >> THEN << >>
  ELSE insertLessonId(sortLessonIds(SubSeq(ids, 1, Len(ids) - 1)), ids[Len(ids)])

IsLanguageCol(c) == c \notin {"Lesson", "Line", "CEFR"}

RECURSIVE byLesson(_, _, _)
\* The Map byLesson after the rows from k on: keys in insertion order and
\* the lines pushed to each lesson, in row order.
byLesson(rows, k, acc) ==
  IF k > Len(rows) THEN acc
  ELSE LET r == rows[k]
           lessonId == Cell(r, "Lesson")
           line == [lineNo |-> Number(Cell(r, "Line")),
                    texts  |-> [lang \in {c \in SeqToSet(r.keys) : IsLanguageCol(c)} |->
                                  IF lang \in DOMAIN r.get THEN r.get[lang] ELSE ""]]
       IN IF lessonId = "" THEN byLesson(rows, k + 1, acc)
          ELSE IF lessonId \in SeqToSet(acc.keys)
            THEN byLesson(rows, k + 1,
                          [acc EXCEPT !.lines[lessonId] = Append(@, line)])
            ELSE byLesson(rows, k + 1,
                          [keys  |-> Append(acc.keys, lessonId),
                           lines |-> (lessonId :> <<line>>) @@ acc.lines])

\* A buildModel without the check of the language columns.
buildModelThrows_RowsOnly(rows) == Len(rows) = 0

\* buildModel throws: no rows, or no column besides Lesson, Line and CEFR.
buildModelThrows(rows) ==
  \/ Len(rows) = 0
  \/ SelectSeq(rows[1].keys, IsLanguageCol) = << >>

\* What els.metaBar shows for the error init has caught.
NoRowsError == "Error loading CSV: Error: CSV contains no rows."
NoLanguageError == "Error loading CSV: Error: No language columns found"
FetchError == "Error loading CSV: Error: HTTP"
LoadErrors == {NoRowsError, NoLanguageError, FetchError}
buildModelError(rows) == IF Len(rows) = 0 THEN NoRowsError ELSE NoLanguageError

\* buildModel(rows) when it does not throw.
buildModel(w, rows) ==
  LET languageCols == SelectSeq(rows[1].keys, IsLanguageCol)
      grouped == byLesson(rows, 1, [keys |-> << >>, lines |-> << >>])
      lessonIds == sortLessonIds(grouped.keys)
      m  == w.model
      id == IF m.currentLessonId \in {Null, ""} \/ m.currentLessonId \notin SeqToSet(lessonIds)
              THEN IF lessonIds = << >> THEN Undefined ELSE lessonIds[1]
              ELSE m.currentLessonId
      lang == IF m.currentLanguage \in {Null, ""} \/ m.currentLanguage \notin SeqToSet(languageCols)
                THEN IF "English" \in SeqToSet(languageCols) THEN "English"
                     ELSE IF languageCols = << >> THEN Undefined ELSE languageCols[1]
                ELSE m.currentLanguage
      h1 == IF m.helperLanguage \notin {Null, ""} /\ m.helperLanguage \notin SeqToSet(languageCols)
              THEN Null ELSE m.helperLanguage
      h2 == IF h1 = lang THEN Null ELSE h1
  IN [w EXCEPT !.model = [lessons |-> [x \in SeqToSet(lessonIds) |-> sortLines(grouped.lines[x])],
                          lessonIds |-> lessonIds,
                          languages |-> languageCols,
                          currentLessonId |-> id,
                          currentLanguage |-> lang,
                          helperLanguage |-> h2]]

\* hydratePreferences(): a key that is absent or "" gives null.
hydratePreferences(w) ==
  LET saved(v) == IF v \in {Null, ""} THEN Null ELSE v
  IN [w EXCEPT !.model.currentLessonId = saved(w.storage.lesson),
               !.model.currentLanguage = saved(w.storage.lang),
               !.model.helperLanguage  = saved(w.storage.helperLang)]

\* initializeUIFromModel(): the options of the three selects are the lists
\* of the model; the preferences are written back.
initializeUIFromModel(w) == persistPreferences(w)

\* The catch of init: the error is shown in place of a lesson.
loadError(w, err) == [w EXCEPT !.page = err]

\* init from the answer of fetchText(CSV_PATH) on.
csvLoaded(w, text) ==
  LET rows == parseCSV(text)
  IN IF buildModelThrows(rows)
       THEN loadError(w, buildModelError(rows))
       ELSE LET w1 == [buildModel(w, rows) EXCEPT !.page = "no lesson"]
            IN render(stopLessonPlayback(initializeUIFromModel(w1)))

\* The page as the script finds it, with localStorage as earlier visits
\* left it.
Blank(saved) ==
  [model |-> [lessons |-> << >>, lessonIds |-> << >>, languages |-> << >>,
              currentLessonId |-> Null, currentLanguage |-> Null, helperLanguage |-> Null],
   storage |-> saved,
   renderToken |-> 0,
   sentenceUrls |-> << >>,
   sentenceBtns |-> << >>,
   gate |-> [active |-> FALSE, results |-> << >>],
   audioExistsCache |-> << >>,
   probes |-> {},
   serverHas |-> {},
   currentlyPlaying |-> [audio |-> NoAudio, btn |-> NoBtn],
   audio |-> [u \in URLS |-> [status |-> "paused", pending |-> {}, listeners |-> {},
                              wired |-> FALSE, missing |-> FALSE]],
   aborted |-> {},
   lessonPlayback |-> [running |-> FALSE, token |-> 0, btn |-> 0],
   lessonBtnText |-> "Play lesson",
   runs |-> [r \in RunIds |-> NoRun],
   lessonImage |-> NoImageEls,
   page |-> "loading"]

SavedLessons == {Null, "", "2", "9"}
SavedLanguages == {Null, "", "English", "Norsk", "Klingon"}
SavedHelperLanguages == {Null, "English", "Norsk", "Klingon"}

CsvLoaded(text) ==
  /\ page = "loading"
  /\ Env(csvLoaded(W, text))

\* fetchText throws: the request failed or the status is not ok.
CsvFetchFailed ==
  /\ page = "loading"
  /\ Env(loadError(W, FetchError))

\* init() has called hydratePreferences and wireUI and awaits fetchText.
LoadInit ==
  \E l \in SavedLessons, g \in SavedLanguages, h \in SavedHelperLanguages :
    Start(hydratePreferences(Blank([lesson |-> l, lang |-> g, helperLang |-> h])))

LoadNext ==
  \/ \E text \in CsvTexts : CsvLoaded(text)
  \/ CsvFetchFailed

LoadSpec == LoadInit /\ [][LoadNext]_vars

\* The lessons buildModel makes of a CSV text that loads.
LessonsOf(text) == buildModel(W, parseCSV(text)).model.lessons

\* C16 (as claimed): in every lesson of a loaded dataset the line numbers
\* increase strictly from each line to the next, and a CSV text with its two
\* data lines exchanged gives the same lessons.
C16_LinesStrictlyOrdered ==
  /\ page \in {"lesson", "no lesson"} =>
       \A id \in DOMAIN model.lessons :
         \A k \in 1..(Len(model.lessons[id]) - 1) :
           model.lessons[id][k].lineNo.val < model.lessons[id][k + 1].lineNo.val
  /\ page = "loading" =>
       \A text \in CsvTexts :
         (Len(text) = 3 /\ ~buildModelThrows(parseCSV(text))) =>
           LessonsOf(text) = LessonsOf(<<text[1], text[3], text[2]>>)

\* The runs that have not returned yet.
RunsInFlight(w) == {r \in RunIds : w.runs[r].phase # "none"}

\* In w the token is greater than in the present state, and every run in
\* flight in the present state holds a stale token.
TokenAdvanced(w) ==
  /\ w.lessonPlayback.token > lessonPlayback.token
  /\ \A r \in RunsInFlight(W) : w.lessonPlayback.token # r

\* C19: lessonPlayback.token never decreases; a call of stopLessonPlayback
\* and a click that starts a run each leave it greater, with every run
\* that was in flight holding a stale token; no run in flight holds a
\* token above the current one, and at most one holds the current one.
C19_TokenMonotone ==
  /\ [][lessonPlayback'.token >= lessonPlayback.token]_vars
  /\ [](/\ \A r \in RunsInFlight(W) : r <= lessonPlayback.token
        /\ Cardinality({r \in RunsInFlight(W) : LiveRun(r)}) <= 1
        /\ TokenAdvanced(stopLessonPlayback(W))
        /\ (inputs < MaxInputs /\ PlayLessonOffered /\ ~lessonPlayback.running) =>
             LET w == playLessonBtnClick(W)
             IN /\ TokenAdvanced(w)
                /\ w.lessonPlayback.running => w.runs[w.lessonPlayback.token].phase # "none")

\* A cancelled run has not returned yet while a run started after it holds
\* the current token.
C19_Witness ==
  \E r \in RunIds, q \in RunIds :
    /\ StaleRun(r) /\ LiveRun(q) /\ r < q
    /\ lessonPlayback.running

\* The sequencer is idle, no clip is active and the slot is empty.
Quiet(w) ==
  /\ ~w.lessonPlayback.running
  /\ \A u \in URLS : ~Active(w.audio[u])
  /\ w.currentlyPlaying = [audio |-> NoAudio, btn |-> NoBtn]

\* w is what render makes of a quiet state, and is quiet itself.
RenderedFromQuiet(w) ==
  /\ Quiet(w)
  /\ \E m \in {w.model} :
       LET x == stopLessonPlayback(persistPreferences([W EXCEPT !.model = m]))
       IN Quiet(x) /\ w = render(x)

\* C20: in every reachable state, whatever is playing, each handler that
\* changes what is displayed (lesson, language, helper language, prev and
\* next when they move) has the sequencer idle, no clip active and the slot
\* empty when it calls render, and render leaves it so; every step that
\* renders ends in such a state.
C20_NavigationCancels ==
  /\ [](/\ \A id \in SeqToSet(model.lessonIds) :
             RenderedFromQuiet(lessonSelectChange(W, id))
        /\ \A v \in SeqToSet(model.languages) :
             /\ RenderedFromQuiet(languageSelectChange(W, v))
             /\ RenderedFromQuiet(helperLanguageSelectChange(W, v))
        /\ RenderedFromQuiet(helperLanguageSelectChange(W, ""))
        /\ IndexOf(model.lessonIds, model.currentLessonId) > 1 =>
             RenderedFromQuiet(prevLessonClick(W))
        /\ IndexOf(model.lessonIds, model.currentLessonId) < Len(model.lessonIds) =>
             RenderedFromQuiet(nextLessonClick(W)))
  /\ [][renderToken' # renderToken =>
          /\ ~lessonPlayback'.running
          /\ \A u \in URLS : ~Active(audio'[u])
          /\ currentlyPlaying' = [audio |-> NoAudio, btn |-> NoBtn]]_vars

\* A change of what is displayed has cancelled a lesson run while its clip
\* was starting: the run of an earlier render has not returned yet, its
\* token is one behind, the rejection of its play() is queued and the page
\* is quiet.
C20_Witness ==
  /\ Quiet(W)
  /\ \E a \in aborted :
       /\ a.kind = "run"
       /\ StaleRun(a.run)
       /\ runs[a.run].g < renderToken
       /\ lessonPlayback.token = a.run + 1

\* The sentence buttons of the page that show the playing state.
PlayingBtns == {i \in DOMAIN sentenceBtns : sentenceBtns[i] = "playing"}

\* C21: a sentence button shows the playing state only while it is the
\* button held in currentlyPlaying, so at most one does; the play-lesson
\* button is on the page and reads "Stop" exactly when the sequencer is
\* running.
C21_ButtonsReflectState ==
  /\ \A i \in PlayingBtns : currentlyPlaying.btn = <<renderToken, i>>
  /\ Cardinality(PlayingBtns) <= 1
  /\ lessonPlayback.running => PlayLessonOffered /\ lessonBtnText = "Stop"
  /\ lessonBtnText = "Stop" => lessonPlayback.running

\* A run plays the second sentence of a lesson: its button shows the
\* playing state, the first one is idle again and the lesson button reads
\* "Stop".
C21_Witness ==
  /\ lessonPlayback.running /\ lessonBtnText = "Stop"
  /\ PlayingBtns = {2}
  /\ sentenceBtns[1] = "idle"
  /\ currentlyPlaying.btn = <<renderToken, 2>>
  /\ audio[currentlyPlaying.audio].status = "playing"

\* A CSV text without data rows, or without a column besides Lesson, Line
\* and CEFR.
NothingToLoad(text) ==
  \/ Len(text) <= 1
  \/ \A k \in 1..Len(text[1]) : text[1][k] \in {"Lesson", "Line", "CEFR"}

\* Nothing of a lesson is there: no lesson list, no render, no request, no
\* sentence button, no play-lesson button.
NothingRendered(w) ==
  /\ w.model.lessons = << >> /\ w.model.lessonIds = << >>
  /\ w.renderToken = 0
  /\ w.sentenceUrls = << >> /\ w.sentenceBtns = << >>
  /\ w.probes = {}
  /\ w.lessonPlayback.btn = 0
  /\ w.lessonPlayback.token = 0

\* C17: a CSV text without data rows or without a language column ends
\* init in the catch: the error is shown and nothing of a lesson is there;
\* and whenever a load error is shown, nothing of a lesson is there.
C17_EmptyDatasetIsLoadError ==
  /\ page = "loading" =>
       \A text \in CsvTexts :
         NothingToLoad(text) =>
           LET w == csvLoaded(W, text)
           IN w.page \in {NoRowsError, NoLanguageError} /\ NothingRendered(w)
  /\ page \in LoadErrors => NothingRendered(W)

\* init has caught the error of a CSV with rows and no language column.
C17_Witness == page = NoLanguageError /\ NothingRendered(W)

\* The preference buildModel keeps: the saved one when it is in the list,
\* else the fallback.
Preferred(saved, list, fallback) ==
  IF saved \in SeqToSet(list) THEN saved ELSE fallback

\* C18 (as claimed): whatever the saved preferences, a CSV text that loads
\* without a load error leaves a current lesson of the lesson list (the
\* saved one, else the first) and a current language of the language list
\* (the saved one, else English, else the first column).
C18_PreferencesFallBack ==
  page = "loading" =>
    \A text \in CsvTexts :
      LET m == csvLoaded(W, text).model
      IN csvLoaded(W, text).page \notin LoadErrors =>
           /\ m.lessonIds # << >>
           /\ m.currentLessonId \in SeqToSet(m.lessonIds)
           /\ m.currentLessonId =
                Preferred(storage.lesson, m.lessonIds, m.lessonIds[1])
           /\ m.currentLanguage \in SeqToSet(m.languages)
           /\ m.currentLanguage =
                Preferred(storage.lang, m.languages,
                          IF "English" \in SeqToSet(m.languages)
                            THEN "English" ELSE m.languages[1])

(* ----------------------------- navigation ----------------------------- *)

\* CSV texts of three data lines whose Lesson cells are "1", "2" or "10" in
\* any order, repeated or not: datasets of one, two and three lessons.
NavLines == {<<l, "1", "A1", "Hi.">> : l \in {"1", "2", "10"}}
NavHeader == <<"Lesson", "Line", "CEFR", "English">>
NavTexts == {<<NavHeader, a, b, c>> : a \in NavLines, b \in NavLines, c \in NavLines}

\* init() has loaded one of these texts, with any saved lesson.
NavInit ==
  \E text \in NavTexts, l \in SavedLessons :
    Start(csvLoaded(hydratePreferences(
            Blank([lesson |-> l, lang |-> Null, helperLang |-> Null])), text))

\* keydown of ArrowLeft / ArrowRight: a click() on the prev / next button.
ArrowLeft == PrevLessonClick
ArrowRight == NextLessonClick

NavNext ==
  \/ PrevLessonClick
  \/ NextLessonClick
  \/ ArrowLeft
  \/ ArrowRight
  \/ \E p \in probes, ok \in BOOLEAN : FetchResponse(p, ok)

NavSpec == NavInit /\ [][NavNext]_vars

\* The position of the current lesson in model.lessonIds (0: not in it).
Position(w) == IndexOf(w.model.lessonIds, w.model.currentLessonId)

\* w is the present state moved to position k of the lesson list.
MovedTo(w, k) ==
  /\ w.model.lessonIds = model.lessonIds
  /\ w.model.currentLessonId = model.lessonIds[k]
  /\ w.storage.lesson = model.lessonIds[k]
  /\ w.renderToken = renderToken + 1

\* C22: the current lesson is always one of the lesson list; the click of
\* the next button (both listeners) moves it one position forward and does
\* nothing on the last lesson, the click of the prev button moves it one
\* position back and does nothing on the first lesson; no step moves it by
\* more than one position.
C22_PrevNextMoveByOne ==
  /\ [](/\ Position(W) >= 1
        /\ IF Position(W) < Len(model.lessonIds)
             THEN MovedTo(nextLessonClick(W), Position(W) + 1)
             ELSE nextLessonClick(W) = W
        /\ IF Position(W) > 1
             THEN MovedTo(prevLessonClick(W), Position(W) - 1)
             ELSE prevLessonClick(W) = W)
  /\ [][model'.currentLessonId # model.currentLessonId =>
          /\ model'.lessonIds = model.lessonIds
          /\ Position([model |-> model']) - Position(W) \in {-1, 1}]_vars

\* Of three lessons "1", "2", "10" the page has come from the first to the
\* last by two moves.
C22_Witness ==
  /\ model.lessonIds = <<"1", "2", "10">>
  /\ model.currentLessonId = "10"
  /\ storage.lesson = "10"
  /\ renderToken = 3

(* ----------------------------- preferences ---------------------------- *)

\* init() with any saved preferences and any of the CSV texts, then the
\* user's selections of language and helper language among the options
\* initializeUIFromModel has put into the two selects.
PrefNext ==
  \/ \E text \in CsvTexts : CsvLoaded(text)
  \/ CsvFetchFailed
  \/ \E v \in SeqToSet(model.languages) : LanguageSelectChange(v)
  \/ \E v \in SeqToSet(model.languages) \cup {""} : HelperLanguageSelectChange(v)
  \/ \E p \in probes, ok \in BOOLEAN : FetchResponse(p, ok)

PrefSpec == LoadInit /\ [][PrefNext]_vars

\* In w the helper language is off or a language of the dataset other than
\* the current one, and localStorage holds it (no item when it is off).
HelperValid(w) ==
  /\ \/ w.model.helperLanguage = Null
     \/ /\ w.model.helperLanguage \in SeqToSet(w.model.languages)
        /\ w.model.helperLanguage # w.model.currentLanguage
  /\ w.storage.helperLang = w.model.helperLanguage

\* C23: once the dataset is loaded, and after every selection of a language
\* or of a helper language, the helper language is off or a dataset language
\* other than the current one, and the stored preference equals it.
C23_HelperLanguageValid ==
  page \notin LoadErrors \cup {"loading"} =>
    /\ HelperValid(W)
    /\ \A v \in SeqToSet(model.languages) :
         /\ HelperValid(languageSelectChange(W, v))
         /\ HelperValid(helperLanguageSelectChange(W, v))
    /\ HelperValid(helperLanguageSelectChange(W, ""))

\* The helper language English was switched off by the selection of English
\* as the language, and Norsk was chosen as helper after that.
C23_Witness ==
  /\ page = "lesson"
  /\ inputs >= 2
  /\ model.currentLanguage = "English"
  /\ model.helperLanguage = "Norsk"
  /\ storage = [lesson |-> model.currentLessonId, lang |-> "English", helperLang |-> "Norsk"]

\* The rejection a is of a play() that has been superseded: another clip is
\* in currentlyPlaying and is starting or playing.
Superseded(a) ==
  /\ currentlyPlaying.audio # NoAudio
  /\ currentlyPlaying.audio # a.url
  /\ Active(audio[currentlyPlaying.audio])

\* C24 (as claimed): the delivery of the rejection of a superseded play()
\* leaves the clip in currentlyPlaying as it is, the slot and the sentence
\* buttons unchanged and the sequencer running if it was.
C24_StaleRejectionHarmless ==
  \A a \in aborted :
    Superseded(a) =>
      LET w == playRejected(Delivering(a), a)
      IN /\ w.currentlyPlaying = currentlyPlaying
         /\ w.audio[currentlyPlaying.audio].status = audio[currentlyPlaying.audio].status
         /\ w.sentenceBtns = sentenceBtns
         /\ w.lessonPlayback = lessonPlayback

\* C25 (as claimed): once a run is cancelled and the rejections queued by
\* the cancel are delivered, none of its listeners is bound to a clip; no
\* clip ever has the listeners of more than one run.
C25_NoListenerAfterCancel ==
  \A u \in URLS :
    /\ Cardinality(audio[u].listeners) <= 1
    /\ \A r \in audio[u].listeners :
         lessonPlayback.token # r => RunAwaiter(u, r) \in aborted

\* C26 (as claimed): whenever the play-lesson button is on the page, every
\* line of the page has its sentence button.
C26_OfferedImpliesAllSentenceBtns ==
  PlayLessonOffered => \A i \in DOMAIN sentenceBtns : sentenceBtns[i] # "none"

(* ------------------------------ lesson image -------------------------- *)

\* The page with the image slot: the dataset of Spec on a server without
\* clips, the user moving between the lessons, and the images loading or
\* failing to load at any time.
ImageLoaded(l) ==
  /\ l \in lessonImage.loads
  /\ Env(imgOnload(W, l))

ImageFailed(l) ==
  /\ l \in lessonImage.loads
  /\ Env(imgOnerror(W, l))

ImageInit ==
  \E id \in SeqToSet(LessonIds), lang \in SeqToSet(Languages) :
    Start(render(stopLessonPlayback(
      [Loaded(id, lang, {}) EXCEPT !.lessonImage = ImageEls])))

ImageNext ==
  \/ \E id \in SeqToSet(LessonIds) : LessonSelectChange(id)
  \/ PrevLessonClick
  \/ NextLessonClick
  \/ \E l \in lessonImage.loads : ImageLoaded(l)
  \/ \E l \in lessonImage.loads : ImageFailed(l)
  \/ \E p \in probes, ok \in BOOLEAN : FetchResponse(p, ok)

ImageSpec == ImageInit /\ [][ImageNext]_vars

\* C27 (as claimed): the image slot is hidden, or shows the image of the
\* current lesson.
C27_ImageOfDisplayedLesson ==
  lessonImage.display = "block" =>
    lessonImage.src = ImageSrc(model.currentLessonId)

====
